---- MODULE Spec2Model ----
(***************************************************************************)
(* Sparse Merkle tree (src/src/merkle_tree/tree.rs) and the Merkle         *)
(* inclusion / process circuits (src/src/merkle_tree/circuits.rs).         *)
(*                                                                         *)
(* Field elements are natural numbers.  The Poseidon pair hash is an       *)
(* injective pairing function on the naturals, so it is collision-free,    *)
(* while a leaf value may still coincide with some hash output, as in the  *)
(* field.  Vec<bool> paths are sequences of BOOLEAN, HashMaps are          *)
(* functions whose DOMAIN is the key set.                                  *)
(***************************************************************************)
EXTENDS Naturals, Sequences, FiniteSets

\* ---------------------------------------------------------------- bounds
MaxHeight == 2
MaxOps == 2

\* ------------------------------------------------------------ primitives
\* Poseidon::new_with_preimage(&[a, b], &constants).hash()
Hash(a, b) == (((a + b) * (a + b + 1)) \div 2) + b + 2

\* F::default(), the canonical empty leaf (Leafable::empty_leaf for F)
empty_leaf == 0

\* Leafable::hash for F: the leaf is its own hash
leaf_hash(v) == v

\* leaf values the callers write: F::zero() and F::one()
LeafValues == {0, 1}

RECURSIVE Pow2(_)
Pow2(n) == IF n = 0 THEN 1 ELSE 2 * Pow2(n - 1)

Reverse(s) == [k \in 1..Len(s) |-> s[Len(s) + 1 - k]]

Pop(s) == SubSeq(s, 1, Len(s) - 1)

\* an insert that keeps the value of a key already present
Insert_keep(m, k, v) == [x \in (DOMAIN m) \cup {k} |-> IF x \in DOMAIN m THEN m[x] ELSE v]

\* HashMap::insert
Insert(m, k, v) == [x \in (DOMAIN m) \cup {k} |-> IF x = k THEN v ELSE m[x]]

\* the loop of usize_to_vec without x >>= 1: every bit is the lowest bit
RECURSIVE LsbFirst_noshift(_, _)
LsbFirst_noshift(x, length) ==
    IF length = 0 THEN <<>>
    ELSE <<(x % 2) = 1>> \o LsbFirst_noshift(x, length - 1)

\* the loop of usize_to_vec: pushes (x & 1) == 1, then x >>= 1
RECURSIVE LsbFirst(_, _)
LsbFirst(x, length) ==
    IF length = 0 THEN <<>>
    ELSE <<(x % 2) = 1>> \o LsbFirst(x \div 2, length - 1)

\* usize_to_vec without v.reverse(): the bits stay little endian
usize_to_vec_noreverse(x, length) == LsbFirst(x, length)

\* usize_to_vec looping over 0..=length: one bit more than the height
usize_to_vec_extrabit(x, length) == Reverse(LsbFirst(x, length + 1))

\* usize to big endian bool vec
usize_to_vec(x, length) == Reverse(LsbFirst(x, length))

\* ------------------------------------------------------------ MerkleTree
\* the vector built by MerkleTree::new before zero_hashes.reverse()
RECURSIVE ZeroChain(_)
ZeroChain(n) ==
    IF n = 0 THEN <<leaf_hash(empty_leaf)>>
    ELSE LET c == ZeroChain(n - 1)
             h == c[Len(c)]
         IN  Append(c, Hash(h, h))

\* MerkleTree::new without zero_hashes.reverse(): entry 0 is the leaf level
New_noreverse(height) ==
    LET chain == ZeroChain(height)
    IN  [height      |-> height,
         node_hashes |-> [p \in {} |-> 0],
         leaves      |-> [i \in {} |-> 0],
         zero_hashes |-> [d \in 0..height |-> chain[d + 1]]]

\* MerkleTree::new(height); zero_hashes is indexed from 0 as the Vec is
New(height) ==
    LET rev == Reverse(ZeroChain(height))
    IN  [height      |-> height,
         node_hashes |-> [p \in {} |-> 0],
         leaves      |-> [i \in {} |-> 0],
         zero_hashes |-> [d \in 0..height |-> rev[d + 1]]]

get_node_hash(t, path) ==
    IF path \in DOMAIN t.node_hashes
    THEN t.node_hashes[path]
    ELSE t.zero_hashes[Len(path)]

\* get_sibling_hash without path[last] = !path[last]: reads the node itself
get_sibling_hash_noflip(t, path) == get_node_hash(t, path)

get_sibling_hash(t, path) ==
    LET last == Len(path)
    IN  get_node_hash(t, [path EXCEPT ![last] = ~path[last]])

get_root(t) == get_node_hash(t, <<>>)

get_leaf(t, index) ==
    IF index \in DOMAIN t.leaves THEN t.leaves[index] ELSE empty_leaf

\* the update loop with path.pop() moved before the sibling is read, the
\* sibling then being read at the popped path
RECURSIVE UpdateLoop_popfirst(_, _, _)
UpdateLoop_popfirst(t, path, h) ==
    IF path = <<>> THEN t
    ELSE LET p2       == Pop(path)
             sibling  == get_node_hash(t, p2)
             preimage == IF path[Len(path)] THEN <<sibling, h>> ELSE <<h, sibling>>
             h2       == Hash(preimage[1], preimage[2])
         IN  UpdateLoop_popfirst(
                 [t EXCEPT !.node_hashes = Insert(t.node_hashes, p2, h2)], p2, h2)

\* the update loop leaving the root entry (the empty path) unwritten
RECURSIVE UpdateLoop_skiproot(_, _, _)
UpdateLoop_skiproot(t, path, h) ==
    IF Len(path) <= 1 THEN t
    ELSE LET sibling  == get_sibling_hash(t, path)
             preimage == IF path[Len(path)] THEN <<sibling, h>> ELSE <<h, sibling>>
             h2       == Hash(preimage[1], preimage[2])
             p2       == Pop(path)
         IN  UpdateLoop_skiproot(
                 [t EXCEPT !.node_hashes = Insert(t.node_hashes, p2, h2)], p2, h2)

\* the update loop also storing each sibling hash it reads in the cache
RECURSIVE UpdateLoop_cachesibling(_, _, _)
UpdateLoop_cachesibling(t, path, h) ==
    IF path = <<>> THEN t
    ELSE LET sibling  == get_sibling_hash(t, path)
             last     == Len(path)
             sibpath  == [path EXCEPT ![last] = ~path[last]]
             preimage == IF path[last] THEN <<sibling, h>> ELSE <<h, sibling>>
             h2       == Hash(preimage[1], preimage[2])
             p2       == Pop(path)
             nh       == Insert(Insert(t.node_hashes, sibpath, sibling), p2, h2)
         IN  UpdateLoop_cachesibling([t EXCEPT !.node_hashes = nh], p2, h2)

\* the update loop hashing (h, sibling) whatever the popped bit is
RECURSIVE UpdateLoop_noorder(_, _, _)
UpdateLoop_noorder(t, path, h) ==
    IF path = <<>> THEN t
    ELSE LET sibling  == get_sibling_hash(t, path)
             h2       == Hash(h, sibling)
             p2       == Pop(path)
         IN  UpdateLoop_noorder(
                 [t EXCEPT !.node_hashes = Insert(t.node_hashes, p2, h2)], p2, h2)

\* the while loop of MerkleTree::update
RECURSIVE UpdateLoop(_, _, _)
UpdateLoop(t, path, h) ==
    IF path = <<>> THEN t
    ELSE LET sibling  == get_sibling_hash(t, path)
             preimage == IF path[Len(path)] THEN <<sibling, h>> ELSE <<h, sibling>>
             h2       == Hash(preimage[1], preimage[2])
             p2       == Pop(path)
         IN  UpdateLoop([t EXCEPT !.node_hashes = Insert(t.node_hashes, p2, h2)], p2, h2)

\* update without self.node_hashes.insert(path.clone(), h) for the leaf
update_noleafnode(t, index, leaf) ==
    LET path == usize_to_vec(index, t.height)
        h    == leaf_hash(leaf)
        t1   == [t EXCEPT !.leaves = Insert(t.leaves, index, leaf)]
    IN  UpdateLoop(t1, path, h)

\* update without self.leaves.insert(index, leaf): only the cache is written
update_noleafmap(t, index, leaf) ==
    LET path == usize_to_vec(index, t.height)
        h    == leaf_hash(leaf)
        t1   == [t EXCEPT !.node_hashes = Insert(t.node_hashes, path, h)]
    IN  UpdateLoop(t1, path, h)

update(t, index, leaf) ==
    LET path == usize_to_vec(index, t.height)
        h    == leaf_hash(leaf)
        t1   == [t EXCEPT !.leaves = Insert(t.leaves, index, leaf),
                          !.node_hashes = Insert(t.node_hashes, path, h)]
    IN  UpdateLoop(t1, path, h)

\* remove clearing the slot: the leaf and its cache entry are deleted and the
\* ancestors recomputed from the empty-leaf hash
remove_delete(t, index) ==
    LET path == usize_to_vec(index, t.height)
        t1   == [t EXCEPT
                   !.leaves = [i \in (DOMAIN t.leaves) \ {index} |-> t.leaves[i]],
                   !.node_hashes = [q \in (DOMAIN t.node_hashes) \ {path} |->
                                       t.node_hashes[q]]]
    IN  UpdateLoop(t1, path, leaf_hash(empty_leaf))

remove(t, index) == update(t, index, empty_leaf)

\* the prove loop collecting the siblings root-adjacent first
RECURSIVE ProveLoop_rootfirst(_, _, _)
ProveLoop_rootfirst(t, path, siblings) ==
    IF path = <<>> THEN siblings
    ELSE ProveLoop_rootfirst(t, Pop(path), <<get_sibling_hash(t, path)>> \o siblings)

\* the prove loop stopping at the children of the root: the root-adjacent
\* sibling is not collected
RECURSIVE ProveLoop_short(_, _, _)
ProveLoop_short(t, path, siblings) ==
    IF Len(path) <= 1 THEN siblings
    ELSE ProveLoop_short(t, Pop(path), Append(siblings, get_sibling_hash(t, path)))

RECURSIVE ProveLoop(_, _, _)
ProveLoop(t, path, siblings) ==
    IF path = <<>> THEN siblings
    ELSE ProveLoop(t, Pop(path), Append(siblings, get_sibling_hash(t, path)))

prove(t, index) == ProveLoop(t, usize_to_vec(index, t.height), <<>>)

\* ------------------------------------------------- failures of MerkleTree
\* get_node_hash panics when assert!(path.len() <= self.height) fails or when
\* self.zero_hashes[path.len()] indexes past the Vec
get_node_hash_panics(t, path) ==
    \/ ~(Len(path) <= t.height)
    \/ /\ path \notin DOMAIN t.node_hashes
       /\ Len(path) \notin DOMAIN t.zero_hashes

\* get_sibling_hash panics when assert!(!path.is_empty()) fails or when its
\* get_node_hash call does
get_sibling_hash_panics(t, path) ==
    \/ path = <<>>
    \/ LET last == Len(path)
       IN  get_node_hash_panics(t, [path EXCEPT ![last] = ~path[last]])

get_root_panics(t) == get_node_hash_panics(t, <<>>)

\* the while loop of update panics when one of its get_sibling_hash calls does
RECURSIVE UpdateLoopPanics(_, _, _)
UpdateLoopPanics(t, path, h) ==
    IF path = <<>> THEN FALSE
    ELSE \/ get_sibling_hash_panics(t, path)
         \/ LET sibling  == get_sibling_hash(t, path)
                preimage == IF path[Len(path)] THEN <<sibling, h>> ELSE <<h, sibling>>
                h2       == Hash(preimage[1], preimage[2])
                p2       == Pop(path)
            IN  UpdateLoopPanics(
                    [t EXCEPT !.node_hashes = Insert(t.node_hashes, p2, h2)], p2, h2)

update_panics(t, index, leaf) ==
    LET path == usize_to_vec(index, t.height)
        h    == leaf_hash(leaf)
        t1   == [t EXCEPT !.leaves = Insert(t.leaves, index, leaf),
                          !.node_hashes = Insert(t.node_hashes, path, h)]
    IN  UpdateLoopPanics(t1, path, h)

remove_panics(t, index) == update_panics(t, index, empty_leaf)

\* the while loop of prove panics when one of its get_sibling_hash calls does
RECURSIVE ProveLoopPanics(_, _)
ProveLoopPanics(t, path) ==
    IF path = <<>> THEN FALSE
    ELSE \/ get_sibling_hash_panics(t, path)
         \/ ProveLoopPanics(t, Pop(path))

prove_panics(t, index) == ProveLoopPanics(t, usize_to_vec(index, t.height))

\* -------------------------------------------------------------- circuits
\* conditionally_reverse reversing when the condition is not set
conditionally_reverse_inverted(a, b, condition) ==
    IF condition THEN <<a, b>> ELSE <<b, a>>

\* AllocatedNum::conditionally_reverse(cs, a, b, condition):
\* (b, a) when the condition is set, (a, b) otherwise
conditionally_reverse(a, b, condition) ==
    IF condition THEN <<b, a>> ELSE <<a, b>>

\* neptune::circuit::poseidon_hash(cs, vec![l, r], &constants): the gadget
\* computes the value the native hash computes
poseidon_hash(lr) == Hash(lr[1], lr[2])

\* InternalHashCircuit::output with the two preimage orders exchanged
InternalHashOutput_swapped(c, z) ==
    LET preimage == IF c.lr_bit THEN <<z[1], c.sibling>> ELSE <<c.sibling, z[1]>>
    IN  <<Hash(preimage[1], preimage[2])>>

\* InternalHashCircuit::output(&self, z); c = [sibling, lr_bit]
InternalHashOutput(c, z) ==
    LET preimage == IF c.lr_bit THEN <<c.sibling, z[1]>> ELSE <<z[1], c.sibling>>
    IN  <<Hash(preimage[1], preimage[2])>>

\* InternalHashCircuit::synthesize(&self, cs, z): the allocated output
InternalHashSynthesize(c, z) ==
    LET lr == conditionally_reverse(z[1], c.sibling, c.lr_bit)
    IN  <<poseidon_hash(lr)>>

\* path.iter().rev().zip(self.siblings.iter()): the k-th pair, k = 1..
ZipRev(path, siblings, k) ==
    [lr_bit |-> path[Len(path) + 1 - k], sibling |-> siblings[k]]

ZipLen(path, siblings) ==
    IF Len(path) < Len(siblings) THEN Len(path) ELSE Len(siblings)

\* the for loop of MerkleInclusionCircuit::output, from pair k on
RECURSIVE InclusionOutputLoop(_, _, _, _)
InclusionOutputLoop(path, siblings, k, result) ==
    IF k > ZipLen(path, siblings) THEN result
    ELSE InclusionOutputLoop(path, siblings, k + 1,
             InternalHashOutput(ZipRev(path, siblings, k), result))

\* MerkleInclusionCircuit::output(&self); c = [siblings, index, value]
MerkleInclusionOutput(c) ==
    LET path   == usize_to_vec(c.index, Len(c.siblings))
        result == InclusionOutputLoop(path, c.siblings, 1, <<c.value>>)
    IN  <<result[1]>>

\* the for loop of MerkleInclusionCircuit::synthesize, from pair k on
RECURSIVE InclusionSynthesizeLoop(_, _, _, _)
InclusionSynthesizeLoop(path, siblings, k, result) ==
    IF k > ZipLen(path, siblings) THEN result
    ELSE InclusionSynthesizeLoop(path, siblings, k + 1,
             InternalHashSynthesize(ZipRev(path, siblings, k), result))

\* MerkleInclusionCircuit::synthesize(&self, cs): the allocated root
MerkleInclusionSynthesize(c) ==
    LET value  == c.value
        path   == usize_to_vec(c.index, Len(c.siblings))
        result == InclusionSynthesizeLoop(path, c.siblings, 1, <<value>>)
    IN  <<result[1]>>

\* MerkleProcessCircuit::output without assert_eq!(old_result[0], z[0])
MerkleProcessOutput_noassert(c, z) ==
    LET new_result == MerkleInclusionOutput(
                          [siblings |-> c.siblings, index |-> c.index, value |-> c.new_value])
    IN  [ok |-> TRUE, out |-> <<new_result[1]>>]

\* MerkleProcessCircuit::output(&self, z); c = [siblings, index, old_value,
\* new_value].  ok = FALSE is the panic of assert_eq!(old_result[0], z[0])
MerkleProcessOutput(c, z) ==
    LET old_result == MerkleInclusionOutput(
                          [siblings |-> c.siblings, index |-> c.index, value |-> c.old_value])
        new_result == MerkleInclusionOutput(
                          [siblings |-> c.siblings, index |-> c.index, value |-> c.new_value])
    IN  IF old_result[1] # z[1]
        THEN [ok |-> FALSE, out |-> <<>>]
        ELSE [ok |-> TRUE, out |-> <<new_result[1]>>]

\* MerkleProcessCircuit::synthesize(&self, cs, z).  ok is whether the
\* constraint "verify old root", 0 * 0 = old_result[0] - z[0] in the field,
\* is satisfied; the new root is allocated either way
MerkleProcessSynthesize(c, z) ==
    LET old_result == MerkleInclusionSynthesize(
                          [siblings |-> c.siblings, index |-> c.index, value |-> c.old_value])
        new_result == MerkleInclusionSynthesize(
                          [siblings |-> c.siblings, index |-> c.index, value |-> c.new_value])
    IN  [ok |-> (old_result[1] = z[1]), out |-> <<new_result[1]>>]

\* ----------------------------------------------------------------- state
VARIABLES
    tree,               \* the MerkleTree: height, node_hashes, leaves, zero_hashes
    prev,               \* the MerkleTree as it was when the last call was made
    call,               \* the last call: [op, index, leaf]
    nops,               \* number of update/remove calls made so far
    pc,                 \* "setup" while the tree is being filled, then "circuit"
                        \* (step circuits called on it) or "chain" (steps folded)
    circuit,            \* the MerkleProcessCircuit of the last output/synthesize call
    z,                  \* the accumulator: the z passed to the step circuit
    ret,                \* what the last circuit call returned: [ok, out]
    poseidon_circuits,  \* the step circuits built so far, in order
    roots,              \* tree.get_root() at the start and after each witnessed update
    folded,             \* number of step circuits folded into z
    inclusion,          \* the MerkleInclusionCircuit of the last inclusion call
    num_steps           \* the driver's num_steps; 0 where the driver does not run

vars == <<tree, prev, call, nops, pc, circuit, z, ret, poseidon_circuits,
          roots, folded, inclusion, num_steps>>

Heights == 0..MaxHeight

\* the in-range indices of a tree of height h: [0, 2^h)
Indices(h) == 0..(Pow2(h) - 1)

\* indices a caller may pass when nothing checks the range: [0, 2^(h+1))
AnyIndices(h) == 0..(2 * Pow2(h) - 1)

Init ==
    /\ \E h \in Heights : tree = New(h)
    /\ prev = tree
    /\ call = [op |-> "new", index |-> 0, leaf |-> empty_leaf]
    /\ nops = 0
    /\ pc = "setup"
    /\ circuit = [siblings |-> [k \in 1..tree.height |-> 0], index |-> 0,
                  old_value |-> 0, new_value |-> 0]
    /\ z = <<get_root(tree)>>
    /\ ret = [ok |-> TRUE, out |-> <<>>]
    /\ poseidon_circuits = <<>>
    /\ roots = <<get_root(tree)>>
    /\ folded = 0
    /\ inclusion = [siblings |-> <<>>, index |-> 0, value |-> 0]
    /\ num_steps = 0

\* --------------------------------------------------------------- actions
\* tree.update(index, leaf) with an in-range index
Update(index, leaf) ==
    /\ pc = "setup"
    /\ nops < MaxOps
    /\ tree' = update(tree, index, leaf)
    /\ prev' = tree
    /\ call' = [op |-> "update", index |-> index, leaf |-> leaf]
    /\ nops' = nops + 1
    /\ UNCHANGED <<pc, circuit, z, ret, poseidon_circuits, roots, folded, inclusion, num_steps>>

\* tree.remove(index) with an in-range index
Remove(index) ==
    /\ pc = "setup"
    /\ nops < MaxOps
    /\ tree' = remove(tree, index)
    /\ prev' = tree
    /\ call' = [op |-> "remove", index |-> index, leaf |-> empty_leaf]
    /\ nops' = nops + 1
    /\ UNCHANGED <<pc, circuit, z, ret, poseidon_circuits, roots, folded, inclusion, num_steps>>

\* a MerkleProcessCircuit whose siblings are tree.prove(index)
Witness(index, old_value, new_value) ==
    [siblings |-> prove(tree, index), index |-> index,
     old_value |-> old_value, new_value |-> new_value]

\* MerkleProcessCircuit { siblings: tree.prove(index), .. }.output(&[tree.get_root()])
Output(index, old_value, new_value) ==
    /\ pc = "setup"
    /\ pc' = "circuit"
    /\ circuit' = Witness(index, old_value, new_value)
    /\ z' = <<get_root(tree)>>
    /\ ret' = MerkleProcessOutput(circuit', z')
    /\ prev' = tree
    /\ call' = [op |-> "output", index |-> index, leaf |-> new_value]
    /\ UNCHANGED <<tree, nops, poseidon_circuits, roots, folded, inclusion, num_steps>>

\* MerkleProcessCircuit { siblings: tree.prove(index), .. }.synthesize(cs, &[root])
Synthesize(index, old_value, new_value) ==
    /\ pc = "setup"
    /\ pc' = "circuit"
    /\ circuit' = Witness(index, old_value, new_value)
    /\ z' = <<get_root(tree)>>
    /\ ret' = MerkleProcessSynthesize(circuit', z')
    /\ prev' = tree
    /\ call' = [op |-> "synthesize", index |-> index, leaf |-> new_value]
    /\ UNCHANGED <<tree, nops, poseidon_circuits, roots, folded, inclusion, num_steps>>

Next ==
    \/ \E i \in Indices(tree.height), v \in LeafValues : Update(i, v)
    \/ \E i \in Indices(tree.height) : Remove(i)

Spec == Init /\ [][Next]_vars

\* the tree calls and, on the tree they built, one call of the step circuit
NextStep ==
    \/ \E i \in Indices(tree.height), v \in LeafValues : Update(i, v)
    \/ \E i \in Indices(tree.height) : Remove(i)
    \/ \E i \in Indices(tree.height), ov \in LeafValues, nv \in LeafValues :
           Output(i, ov, nv)
    \/ \E i \in Indices(tree.height), ov \in LeafValues, nv \in LeafValues :
           Synthesize(i, ov, nv)

SpecStep == Init /\ [][NextStep]_vars

\* ----------------------------------------------------------------- chain
\* let oldest_root = tree.get_root(); poseidon_circuits = vec![];
\* z0_primary = vec![oldest_root]: the chain starts from the current tree
Genesis ==
    /\ pc = "setup"
    /\ pc' = "chain"
    /\ z' = <<get_root(tree)>>
    /\ roots' = <<get_root(tree)>>
    /\ poseidon_circuits' = <<>>
    /\ folded' = 0
    /\ ret' = [ok |-> TRUE, out |-> <<>>]
    /\ UNCHANGED <<tree, prev, call, nops, circuit, inclusion, num_steps>>

\* one witnessed update: the siblings tree.prove(index) and the old leaf hash
\* are captured, then tree.update(index, leaf) is applied, and the step
\* circuit built from them is pushed
WitnessedUpdate(index, leaf) ==
    /\ pc = "chain"
    /\ nops < MaxOps
    /\ tree' = update(tree, index, leaf)
    /\ prev' = tree
    /\ call' = [op |-> "update", index |-> index, leaf |-> leaf]
    /\ nops' = nops + 1
    /\ poseidon_circuits' = Append(poseidon_circuits,
           Witness(index, leaf_hash(get_leaf(tree, index)), leaf_hash(leaf)))
    /\ roots' = Append(roots, get_root(tree'))
    /\ UNCHANGED <<pc, circuit, z, ret, folded, inclusion, num_steps>>

\* the next step circuit is folded: z_{i+1} = circuit.output(&z_i); the
\* panic of its assert_eq! ends the run
ProveStep ==
    /\ pc = "chain"
    /\ ret.ok
    /\ folded < Len(poseidon_circuits)
    /\ circuit' = poseidon_circuits[folded + 1]
    /\ ret' = MerkleProcessOutput(circuit', z)
    /\ z' = IF ret'.ok THEN ret'.out ELSE z
    /\ folded' = IF ret'.ok THEN folded + 1 ELSE folded
    /\ UNCHANGED <<tree, prev, call, nops, pc, poseidon_circuits, roots, inclusion, num_steps>>

NextChain ==
    \/ \E i \in Indices(tree.height), v \in LeafValues : Update(i, v)
    \/ \E i \in Indices(tree.height) : Remove(i)
    \/ Genesis
    \/ \E i \in Indices(tree.height), v \in LeafValues : WitnessedUpdate(i, v)
    \/ ProveStep

SpecChain == Init /\ [][NextChain]_vars

\* ---------------------------------------------------------------- driver
\* examples/merkle_process_proof.rs, main, with num_levels and num_steps
\* drawn instead of 16 and 10
MaxDriverHeight == 3

DriverHeights == 0..MaxDriverHeight

\* main up to "let mut poseidon_circuits = vec![]", for every num_levels and
\* every num_steps that debug_assert!(num_steps < 1 << num_levels) lets pass
InitDriver ==
    /\ \E h \in DriverHeights : tree = New(h)
    /\ num_steps \in Indices(tree.height)
    /\ prev = tree
    /\ call = [op |-> "new", index |-> 0, leaf |-> empty_leaf]
    /\ nops = 0
    /\ pc = "driver_update"
    /\ circuit = [siblings |-> [k \in 1..tree.height |-> 0], index |-> 0,
                  old_value |-> 0, new_value |-> 0]
    /\ z = <<get_root(tree)>>
    /\ ret = [ok |-> TRUE, out |-> <<>>]
    /\ poseidon_circuits = <<>>
    /\ roots = <<get_root(tree)>>
    /\ folded = 0
    /\ inclusion = [siblings |-> <<>>, index |-> 0, value |-> 0]

\* MerkleProcessCircuit { siblings: tree.prove(index), index, old_value,
\* new_value } with old_value = F::zero() and new_value = F::one()
DriverCircuit(index) ==
    LET old_value == 0
        new_value == 1
    IN  [siblings |-> prove(tree, index), index |-> index,
         old_value |-> old_value, new_value |-> new_value]

\* for index in 0..num_steps { tree.update(index, new_value); ..
DriverUpdate ==
    /\ pc = "driver_update"
    /\ Len(poseidon_circuits) < num_steps
    /\ LET index == Len(poseidon_circuits)
           new_value == 1
       IN  /\ tree' = update(tree, index, new_value)
           /\ call' = [op |-> "update", index |-> index, leaf |-> new_value]
    /\ prev' = tree
    /\ nops' = nops + 1
    /\ roots' = Append(roots, get_root(tree'))
    /\ pc' = "driver_prove"
    /\ UNCHANGED <<circuit, z, ret, poseidon_circuits, folded, inclusion, num_steps>>

\* .. let siblings = tree.prove(index); poseidon_circuits.push(..) }
DriverProve ==
    /\ pc = "driver_prove"
    /\ poseidon_circuits' = Append(poseidon_circuits, DriverCircuit(call.index))
    /\ pc' = "driver_update"
    /\ UNCHANGED <<tree, prev, call, nops, circuit, z, ret, roots, folded,
                   inclusion, num_steps>>

\* let latest_root = tree.get_root(); let z0_primary = vec![oldest_root]
DriverStartFold ==
    /\ pc = "driver_update"
    /\ Len(poseidon_circuits) = num_steps
    /\ z' = <<roots[1]>>
    /\ folded' = 0
    /\ pc' = "driver_fold"
    /\ UNCHANGED <<tree, prev, call, nops, circuit, ret, poseidon_circuits, roots,
                   inclusion, num_steps>>

\* RecursiveSNARK::prove_step(.., circuit_primary.clone(), ..).unwrap() for the
\* next of poseidon_circuits: z_{i+1} = circuit_primary.output(&z_i)
DriverProveStep ==
    /\ pc = "driver_fold"
    /\ ret.ok
    /\ folded < num_steps
    /\ circuit' = poseidon_circuits[folded + 1]
    /\ ret' = MerkleProcessOutput(circuit', z)
    /\ z' = IF ret'.ok THEN ret'.out ELSE z
    /\ folded' = IF ret'.ok THEN folded + 1 ELSE folded
    /\ UNCHANGED <<tree, prev, call, nops, pc, poseidon_circuits, roots, inclusion,
                   num_steps>>

\* assert!(recursive_snark.is_some()), which fails when no step was folded,
\* then assert_eq!(zn_primary[0], latest_root)
DriverVerify ==
    /\ pc = "driver_fold"
    /\ ret.ok
    /\ folded = num_steps
    /\ IF num_steps = 0
       THEN pc' = "driver_panic" /\ ret' = ret
       ELSE pc' = "driver_done" /\ ret' = [ok |-> (z[1] = get_root(tree)), out |-> z]
    /\ UNCHANGED <<tree, prev, call, nops, circuit, z, poseidon_circuits, roots,
                   folded, inclusion, num_steps>>

NextDriver ==
    \/ DriverUpdate
    \/ DriverProve
    \/ DriverStartFold
    \/ DriverProveStep
    \/ DriverVerify

SpecDriver == InitDriver /\ [][NextDriver]_vars

\* ------------------------------------------------------- stale witnesses
\* siblings = tree.prove(index) taken before the last update or remove, used
\* in a step whose z_in is the root after it: MerkleProcessCircuit { siblings,
\* index, old_value: the leaf hash now stored at index, new_value }.output(&[root])
StaleOutput(index, new_value) ==
    /\ pc = "setup"
    /\ call.op \in {"update", "remove"}
    /\ circuit' = [siblings |-> prove(prev, index), index |-> index,
                   old_value |-> leaf_hash(get_leaf(tree, index)),
                   new_value |-> new_value]
    /\ z' = <<get_root(tree)>>
    /\ ret' = MerkleProcessOutput(circuit', z')
    /\ pc' = "stale"
    /\ UNCHANGED <<tree, prev, call, nops, poseidon_circuits, roots, folded,
                   inclusion, num_steps>>

NextStale ==
    \/ \E i \in Indices(tree.height), v \in LeafValues : Update(i, v)
    \/ \E i \in Indices(tree.height) : Remove(i)
    \/ \E i \in Indices(tree.height), nv \in LeafValues : StaleOutput(i, nv)

SpecStale == Init /\ [][NextStale]_vars

\* ------------------------------------------------------------ read calls
\* let siblings = tree.prove(index), on a tree after any updates and removes
Prove(index) ==
    /\ pc = "setup"
    /\ call' = [op |-> "prove", index |-> index, leaf |-> empty_leaf]
    /\ prev' = tree
    /\ ret' = IF prove_panics(tree, index)
              THEN [ok |-> FALSE, out |-> <<>>]
              ELSE [ok |-> TRUE, out |-> prove(tree, index)]
    /\ pc' = "read"
    /\ UNCHANGED <<tree, nops, circuit, z, poseidon_circuits, roots, folded,
                   inclusion, num_steps>>

\* tree.get_leaf(index)
GetLeaf(index) ==
    /\ pc = "setup"
    /\ call' = [op |-> "get_leaf", index |-> index, leaf |-> empty_leaf]
    /\ prev' = tree
    /\ ret' = [ok |-> TRUE, out |-> <<get_leaf(tree, index)>>]
    /\ pc' = "read"
    /\ UNCHANGED <<tree, nops, circuit, z, poseidon_circuits, roots, folded,
                   inclusion, num_steps>>

\* tree.get_root()
GetRoot ==
    /\ pc = "setup"
    /\ call' = [op |-> "get_root", index |-> 0, leaf |-> empty_leaf]
    /\ prev' = tree
    /\ ret' = IF get_root_panics(tree)
              THEN [ok |-> FALSE, out |-> <<>>]
              ELSE [ok |-> TRUE, out |-> <<get_root(tree)>>]
    /\ pc' = "read"
    /\ UNCHANGED <<tree, nops, circuit, z, poseidon_circuits, roots, folded,
                   inclusion, num_steps>>

\* usize_to_vec(x, self.height)
UsizeToVec(x) ==
    /\ pc = "setup"
    /\ call' = [op |-> "usize_to_vec", index |-> x, leaf |-> empty_leaf]
    /\ prev' = tree
    /\ ret' = [ok |-> TRUE, out |-> usize_to_vec(x, tree.height)]
    /\ pc' = "read"
    /\ UNCHANGED <<tree, nops, circuit, z, poseidon_circuits, roots, folded,
                   inclusion, num_steps>>

NextRead ==
    \/ \E i \in Indices(tree.height), v \in LeafValues : Update(i, v)
    \/ \E i \in Indices(tree.height) : Remove(i)
    \/ \E i \in Indices(tree.height) : Prove(i)
    \/ \E i \in Indices(tree.height) : GetLeaf(i)
    \/ GetRoot
    \/ \E x \in Indices(tree.height) : UsizeToVec(x)

SpecRead == Init /\ [][NextRead]_vars

\* ------------------------------------------------ reconstruction, any input
\* field elements given to the inclusion circuit as value and siblings
CircuitValues == {0, 1, 2}

\* the siblings vectors of every length up to MaxHeight
SiblingVectors == UNION {[1..n -> CircuitValues] : n \in Heights}

\* MerkleInclusionCircuit { siblings, index, value }.output()
InclusionOutput(value, index, siblings) ==
    /\ pc = "setup"
    /\ inclusion' = [siblings |-> siblings, index |-> index, value |-> value]
    /\ ret' = [ok |-> TRUE, out |-> MerkleInclusionOutput(inclusion')]
    /\ call' = [op |-> "inclusion_output", index |-> index, leaf |-> value]
    /\ pc' = "circuit"
    /\ UNCHANGED <<tree, prev, nops, circuit, z, poseidon_circuits, roots, folded, num_steps>>

\* MerkleInclusionCircuit { siblings, index, value }.synthesize(cs)
InclusionSynthesize(value, index, siblings) ==
    /\ pc = "setup"
    /\ inclusion' = [siblings |-> siblings, index |-> index, value |-> value]
    /\ ret' = [ok |-> TRUE, out |-> MerkleInclusionSynthesize(inclusion')]
    /\ call' = [op |-> "inclusion_synthesize", index |-> index, leaf |-> value]
    /\ pc' = "circuit"
    /\ UNCHANGED <<tree, prev, nops, circuit, z, poseidon_circuits, roots, folded, num_steps>>

NextCircuit ==
    \/ \E siblings \in SiblingVectors, v \in CircuitValues :
           \E i \in AnyIndices(Len(siblings)) : InclusionOutput(v, i, siblings)
    \/ \E siblings \in SiblingVectors, v \in CircuitValues :
           \E i \in AnyIndices(Len(siblings)) : InclusionSynthesize(v, i, siblings)

SpecCircuit == Init /\ [][NextCircuit]_vars

\* ----------------------------------------------------- tree, any index
NextAnyIndex ==
    \/ \E i \in AnyIndices(tree.height), v \in LeafValues : Update(i, v)
    \/ \E i \in AnyIndices(tree.height) : Remove(i)

SpecAnyIndex == Init /\ [][NextAnyIndex]_vars

\* ------------------------------------------------------------ properties
\* field elements tried as a claimed old value: leaf values and hash outputs
FieldSample == 0..6

\* reconstructRoot(value, index, siblings): the native reconstruction
Reconstruct(value, index, siblings) ==
    MerkleInclusionOutput([siblings |-> siblings, index |-> index, value |-> value])

\* C1: in every reachable state and for every in-range index i, the native
\* reconstruction from hash(getLeaf(i)), i and prove(i) equals getRoot()
C1_InclusionMatchesRoot ==
    \A i \in Indices(tree.height) :
        Reconstruct(leaf_hash(get_leaf(tree, i)), i, prove(tree, i)) = <<get_root(tree)>>

\* C1 witness: a height-2 tree after two updates, the last one writing a
\* non-empty leaf, whose root is no longer the empty root
C1_Witness ==
    /\ tree.height = 2
    /\ nops = 2
    /\ call.op = "update"
    /\ call.leaf # empty_leaf
    /\ get_leaf(tree, call.index) = call.leaf
    /\ get_root(tree) # tree.zero_hashes[0]
    /\ Reconstruct(leaf_hash(call.leaf), call.index, prove(tree, call.index))
           = <<get_root(tree)>>

\* the cache entry of child b of p if present, else the zero hash of its depth
CachedChild(p, b) ==
    IF Append(p, b) \in DOMAIN tree.node_hashes
    THEN tree.node_hashes[Append(p, b)]
    ELSE tree.zero_hashes[Len(p) + 1]

\* C2: every cached path p shorter than the height holds
\* Hash(child 0, child 1), each child being its cache entry or the zero hash
C2_CacheInvariant ==
    \A p \in DOMAIN tree.node_hashes :
        Len(p) < tree.height =>
            tree.node_hashes[p] = Hash(CachedChild(p, FALSE), CachedChild(p, TRUE))

\* C2 witness: after two updates of a height-2 tree, an inner node is cached
\* with one child cached and the other defaulting to the zero hash
C2_Witness ==
    /\ tree.height = 2
    /\ nops = 2
    /\ \E p \in DOMAIN tree.node_hashes :
           /\ Len(p) = 1
           /\ Append(p, TRUE) \in DOMAIN tree.node_hashes
           /\ Append(p, FALSE) \notin DOMAIN tree.node_hashes
           /\ tree.node_hashes[p] # tree.zero_hashes[1]

\* C4: a step over the current root with siblings = prove(index) and an old
\* value other than the hash of the true leaf aborts natively, returning no
\* accumulator, and leaves the "verify old root" constraint unsatisfied.
\* The first conjunct tries every old value of FieldSample on each tree as
\* it is built (a circuit call leaves the tree as it is); the other two are
\* about the call that was made
C4_FalseOldValueRejected ==
    /\ pc = "setup" =>
           \A i \in Indices(tree.height), ov \in FieldSample :
               ov # leaf_hash(get_leaf(tree, i)) =>
                   LET c == Witness(i, ov, leaf_hash(empty_leaf))
                   IN  /\ MerkleProcessOutput(c, <<get_root(tree)>>)
                              = [ok |-> FALSE, out |-> <<>>]
                       /\ ~MerkleProcessSynthesize(c, <<get_root(tree)>>).ok
    /\ (/\ call.op \in {"output", "synthesize"}
        /\ circuit.old_value # leaf_hash(get_leaf(tree, circuit.index)))
           => ~ret.ok
    /\ (/\ call.op = "output"
        /\ circuit.old_value # leaf_hash(get_leaf(tree, circuit.index)))
           => ret.out = <<>>

\* C4 witness: output was called on an updated tree with the current root,
\* the current siblings and a false old value, and it aborted
C4_Witness ==
    /\ call.op = "output"
    /\ nops > 0
    /\ tree.height > 0
    /\ z = <<get_root(tree)>>
    /\ circuit.siblings = prove(tree, circuit.index)
    /\ circuit.old_value # leaf_hash(get_leaf(tree, circuit.index))
    /\ ret = [ok |-> FALSE, out |-> <<>>]

\* C5: prove(i) just before update(i, v) equals prove(i) just after it, and
\* these siblings reconstruct the old root from the old leaf hash and the
\* new root from the new leaf hash
C5_SiblingsPreserved ==
    call.op \in {"update", "remove"} =>
        /\ prove(prev, call.index) = prove(tree, call.index)
        /\ Reconstruct(leaf_hash(get_leaf(prev, call.index)), call.index,
                       prove(tree, call.index)) = <<get_root(prev)>>
        /\ Reconstruct(leaf_hash(call.leaf), call.index,
                       prove(prev, call.index)) = <<get_root(tree)>>

\* C5 witness: an update of a height-2 tree that changed the root while the
\* path's siblings, one of them cached, stayed what they were
C5_Witness ==
    /\ call.op = "update"
    /\ tree.height = 2
    /\ get_root(tree) # get_root(prev)
    /\ prove(prev, call.index) = prove(tree, call.index)
    /\ prove(tree, call.index) # prove(New(2), call.index)

\* C6 as stated: on the all-empty tree of height 2, after update(0, 1),
\* prove(2) and prove(3) are entry for entry what they were on the all-empty
\* tree
C6_ScenarioUnchangedProofs ==
    (/\ tree.height = 2
     /\ prev = New(2)
     /\ call = [op |-> "update", index |-> 0, leaf |-> 1])
        => /\ prove(tree, 2) = prove(New(2), 2)
           /\ prove(tree, 3) = prove(New(2), 3)

\* C6 amended: on the all-empty tree of height 2, after update(0, 1), the
\* leaf-adjacent entries of prove(2) and prove(3) are what they were on the
\* all-empty tree, and their root-adjacent entry is the hash of the updated
\* subtree of indices 0 and 1, which is not the empty subtree's hash
C6_ScenarioLeafAdjacentUnchanged ==
    (/\ tree.height = 2
     /\ prev = New(2)
     /\ call = [op |-> "update", index |-> 0, leaf |-> 1])
        => \A i \in {2, 3} :
               /\ Len(prove(tree, i)) = 2
               /\ prove(tree, i)[1] = prove(New(2), i)[1]
               /\ prove(tree, i)[2] = Hash(leaf_hash(1), leaf_hash(empty_leaf))
               /\ prove(tree, i)[2] # prove(New(2), i)[2]

\* C6 witness: update(0, 1) was made on the all-empty tree of height 2 and
\* changed the root-adjacent entry of prove(2) but not its leaf-adjacent one
C6_Witness ==
    /\ tree.height = 2
    /\ prev = New(2)
    /\ call = [op |-> "update", index |-> 0, leaf |-> 1]
    /\ tree = update(New(2), 0, 1)
    /\ prove(tree, 2)[1] = prove(prev, 2)[1]
    /\ prove(tree, 2)[2] # prove(prev, 2)[2]

\* C8: update(i, v) applied twice in a row gives the root, the node-hash
\* cache and the leaf map that applying it once gives
C8_UpdateIdempotent ==
    /\ \A i \in Indices(tree.height), v \in LeafValues :
           LET once  == update(tree, i, v)
               twice == update(once, i, v)
           IN  /\ get_root(twice) = get_root(once)
               /\ twice.node_hashes = once.node_hashes
               /\ twice.leaves = once.leaves
    /\ (/\ call.op = "update"
        /\ call.index \in DOMAIN prev.leaves
        /\ prev.leaves[call.index] = call.leaf)
           => tree = prev

\* C8 witness: the same update of a non-empty leaf was made twice in a row
\* and the second one left the tree as the first one made it
C8_Witness ==
    /\ call.op = "update"
    /\ nops = 2
    /\ tree.height = 2
    /\ call.leaf # empty_leaf
    /\ call.index \in DOMAIN prev.leaves
    /\ prev.leaves[call.index] = call.leaf
    /\ DOMAIN prev.leaves = {call.index}
    /\ tree = prev

\* C3: from any reachable tree with root root_0, folding the steps whose
\* witnesses were captured just before each update never trips the old-root
\* assertion, and after k steps the accumulator is the tree's root after the
\* k-th update
C3_ChainFollowsRoots ==
    pc = "chain" =>
        /\ ret.ok
        /\ Len(roots) = Len(poseidon_circuits) + 1
        /\ roots[Len(roots)] = get_root(tree)
        /\ folded <= Len(poseidon_circuits)
        /\ z = <<roots[folded + 1]>>

\* C3 witness: two witnessed updates of a height-2 tree, each changing the
\* root, were folded and the accumulator is the tree's current root
C3_Witness ==
    /\ pc = "chain"
    /\ tree.height = 2
    /\ Len(poseidon_circuits) = 2
    /\ folded = 2
    /\ roots[1] # roots[2]
    /\ roots[2] # roots[3]
    /\ poseidon_circuits[1].index # poseidon_circuits[2].index
    /\ ret.ok
    /\ z = <<get_root(tree)>>

\* C7: for every value, index and siblings vector the root allocated by
\* MerkleInclusionCircuit::synthesize is the root that output returns, and
\* on each level both forms hash (sibling, acc) when lr_bit is set and
\* (acc, sibling) when it is not
C7_NativeEqualsConstrained ==
    /\ call.op = "inclusion_synthesize" => ret.out = MerkleInclusionOutput(inclusion)
    /\ call.op = "inclusion_output" => ret.out = MerkleInclusionSynthesize(inclusion)
    /\ \A k \in 1..Len(inclusion.siblings), lr_bit \in BOOLEAN :
           LET c   == [sibling |-> inclusion.siblings[k], lr_bit |-> lr_bit]
               acc == inclusion.value
               lr  == IF lr_bit THEN <<c.sibling, acc>> ELSE <<acc, c.sibling>>
           IN  /\ InternalHashSynthesize(c, <<acc>>) = <<Hash(lr[1], lr[2])>>
               /\ InternalHashOutput(c, <<acc>>) = <<Hash(lr[1], lr[2])>>

\* C7 witness: synthesize was called with two distinct siblings, a value
\* distinct from both and a path with a set and an unset bit, and allocated
\* the root output returns
C7_Witness ==
    /\ call.op = "inclusion_synthesize"
    /\ Len(inclusion.siblings) = 2
    /\ inclusion.index = 1
    /\ inclusion.siblings[1] # inclusion.siblings[2]
    /\ inclusion.value \notin {inclusion.siblings[1], inclusion.siblings[2]}
    /\ ret.out = MerkleInclusionOutput(inclusion)
    /\ ret.out = <<Hash(Hash(inclusion.siblings[1], inclusion.value),
                        inclusion.siblings[2])>>

\* C9: update or remove with an index outside [0, 2^H) is rejected and
\* leaves the leaf map, the node-hash cache and the root unchanged
C9_InvalidIndexRejected ==
    (/\ call.op \in {"update", "remove"}
     /\ call.index \notin Indices(tree.height))
        => /\ tree.leaves = prev.leaves
           /\ tree.node_hashes = prev.node_hashes
           /\ get_root(tree) = get_root(prev)

\* C10: the inclusion reconstruction given a siblings vector whose length is
\* not the tree height is rejected and returns no root
C10_SiblingLengthChecked ==
    (/\ call.op \in {"inclusion_output", "inclusion_synthesize"}
     /\ Len(inclusion.siblings) # tree.height)
        => /\ ~ret.ok
           /\ ret.out = <<>>

\* C11: across every update and remove the key sets of the node-hash cache
\* and of the leaf map only grow, and remove(index) is update(index,
\* emptyLeafValue): the slot stays and holds the empty-leaf value and hash
C11_MonotonicGrowth ==
    /\ call.op \in {"update", "remove"} =>
           /\ DOMAIN prev.node_hashes \subseteq DOMAIN tree.node_hashes
           /\ DOMAIN prev.leaves \subseteq DOMAIN tree.leaves
    /\ call.op = "remove" =>
           /\ tree = update(prev, call.index, empty_leaf)
           /\ call.index \in DOMAIN tree.leaves
           /\ tree.leaves[call.index] = empty_leaf
           /\ usize_to_vec(call.index, tree.height) \in DOMAIN tree.node_hashes
           /\ tree.node_hashes[usize_to_vec(call.index, tree.height)]
                  = leaf_hash(empty_leaf)

\* C11 witness: a leaf written with a non-empty value was removed and its
\* slot is still in the leaf map and in the cache
C11_Witness ==
    /\ call.op = "remove"
    /\ tree.height = 2
    /\ call.index \in DOMAIN prev.leaves
    /\ prev.leaves[call.index] # empty_leaf
    /\ call.index \in DOMAIN tree.leaves
    /\ tree.leaves[call.index] = empty_leaf
    /\ DOMAIN tree.node_hashes = DOMAIN prev.node_hashes
    /\ get_root(tree) = tree.zero_hashes[0]

\* C12: on a fresh tree, for k = 0..N-1 with N < 2^H, update(k, one) followed
\* by siblings_k = prove(k) captured after it gives steps {siblings_k, k, zero,
\* one} whose folding from the fresh root passes every old-root assertion and
\* ends with the accumulator equal to the tree's root after the N updates
C12_DriverChain ==
    /\ pc \in {"driver_update", "driver_prove", "driver_fold", "driver_done"} => ret.ok
    /\ pc \in {"driver_fold", "driver_done"} =>
           /\ z = <<roots[folded + 1]>>
           /\ Len(poseidon_circuits) = num_steps
           /\ roots[num_steps + 1] = get_root(tree)
    /\ pc = "driver_done" =>
           /\ folded = num_steps
           /\ z = <<get_root(tree)>>

\* C12 witness: three steps on a height-2 tree were folded and the final
\* accumulator is the tree's root, which is not the fresh root
C12_Witness ==
    /\ pc = "driver_done"
    /\ tree.height = 2
    /\ num_steps = 3
    /\ folded = 3
    /\ ret.ok
    /\ z = <<get_root(tree)>>
    /\ z # <<roots[1]>>
    /\ \A k \in 1..3 : poseidon_circuits[k].old_value = 0

\* C13: a step for index i built from siblings captured before update(j, w)
\* and from the true old value at i, run against the root after that update,
\* fails the old-root check when j # i and the update changed the leaf hash at
\* j; with j # i it passes only when the update left the root as it was, and
\* it passes whenever the update changed no leaf hash
C13_StaleSiblingsRejected ==
    pc = "stale" =>
        LET i       == circuit.index
            j       == call.index
            changed == leaf_hash(get_leaf(prev, j)) # leaf_hash(get_leaf(tree, j))
        IN  /\ (i # j /\ changed) => ~ret.ok
            /\ (i # j /\ ret.ok) => get_root(prev) = get_root(tree)
            /\ ~changed => (ret.ok /\ circuit.siblings = prove(tree, i))

\* C13 witness: on a height-2 tree the leaf at j went from empty to 1 after
\* the siblings of i # j were captured, and the step for i was rejected
C13_Witness ==
    /\ pc = "stale"
    /\ tree.height = 2
    /\ call.op = "update"
    /\ circuit.index # call.index
    /\ get_leaf(prev, call.index) = empty_leaf
    /\ get_leaf(tree, call.index) = 1
    /\ circuit.siblings = prove(prev, circuit.index)
    /\ circuit.siblings # prove(tree, circuit.index)
    /\ circuit.old_value = leaf_hash(get_leaf(tree, circuit.index))
    /\ z = <<get_root(tree)>>
    /\ ~ret.ok

\* C14: prove(index) returns exactly H hashes, entry k (from 0) being the
\* node hash of the sibling of the length-(H-k) prefix of the index's path,
\* and the call leaves node_hashes, leaves and zero_hashes as they were
C14_ProveShape ==
    call.op = "prove" =>
        LET H    == tree.height
            path == usize_to_vec(call.index, H)
        IN  /\ ret.ok
            /\ Len(ret.out) = H
            /\ \A k \in 0..(H - 1) :
                   LET prefix == SubSeq(path, 1, H - k)
                       sib    == [prefix EXCEPT ![H - k] = ~prefix[H - k]]
                   IN  ret.out[k + 1] = get_node_hash(tree, sib)
            /\ tree.node_hashes = prev.node_hashes
            /\ tree.leaves = prev.leaves
            /\ tree.zero_hashes = prev.zero_hashes

\* C14 witness: a proof on a height-2 tree whose leaf-adjacent entry is a
\* cached leaf hash and whose root-adjacent entry is a zero hash
C14_Witness ==
    /\ call.op = "prove"
    /\ tree.height = 2
    /\ call.index = 1
    /\ <<FALSE, FALSE>> \in DOMAIN tree.node_hashes
    /\ <<TRUE>> \notin DOMAIN tree.node_hashes
    /\ ret.out = <<leaf_hash(1), tree.zero_hashes[1]>>

\* C15: with indices in [0, 2^H) no get_leaf, get_root, update, remove or
\* prove call fails in any reachable state, and reading or proving a leaf
\* that was never written gives the empty-leaf value and a proof of length H
C15_NoFailureInRange ==
    /\ pc = "setup" =>
           /\ ~get_root_panics(tree)
           /\ \A i \in Indices(tree.height) :
                  /\ ~prove_panics(tree, i)
                  /\ ~remove_panics(tree, i)
                  /\ \A v \in LeafValues : ~update_panics(tree, i, v)
                  /\ i \notin DOMAIN tree.leaves =>
                         /\ get_leaf(tree, i) = empty_leaf
                         /\ Len(prove(tree, i)) = tree.height
    /\ pc = "read" =>
           /\ ret.ok
           /\ (call.op = "get_leaf" /\ call.index \notin DOMAIN tree.leaves)
                  => ret.out = <<empty_leaf>>
           /\ (call.op = "prove" /\ call.index \notin DOMAIN tree.leaves)
                  => Len(ret.out) = tree.height

\* C15 witness: after two updates on a height-2 tree a leaf that was never
\* written was read and gave the empty-leaf value
C15_Witness ==
    /\ pc = "read"
    /\ call.op = "get_leaf"
    /\ tree.height = 2
    /\ nops = 2
    /\ Cardinality(DOMAIN tree.leaves) = 2
    /\ call.index \notin DOMAIN tree.leaves
    /\ ret = [ok |-> TRUE, out |-> <<empty_leaf>>]

\* the number a bit sequence denotes when read most significant bit first
RECURSIVE path_to_index(_)
path_to_index(path) ==
    IF path = <<>> THEN 0
    ELSE 2 * path_to_index(Pop(path)) + (IF path[Len(path)] THEN 1 ELSE 0)

\* C16: usize_to_vec(index, H) for index in [0, 2^H) has exactly H booleans,
\* most significant bit first, reads back to index, and maps [0, 2^H)
\* one-to-one onto the bit sequences of length H
C16_PathCodec ==
    LET H == tree.height
    IN  /\ pc = "setup" =>
               /\ \A x \in Indices(H) :
                      LET v == usize_to_vec(x, H)
                      IN  /\ Len(v) = H
                          /\ \A k \in 1..H : v[k] = (((x \div Pow2(H - k)) % 2) = 1)
                          /\ path_to_index(v) = x
               /\ \A x, y \in Indices(H) :
                      usize_to_vec(x, H) = usize_to_vec(y, H) => x = y
               /\ {usize_to_vec(x, H) : x \in Indices(H)} = [1..H -> BOOLEAN]
        /\ call.op = "usize_to_vec" =>
               /\ Len(ret.out) = H
               /\ path_to_index(ret.out) = call.index
               /\ H >= 1 => ret.out[H] = ((call.index % 2) = 1)

\* C16 witness: usize_to_vec(1, 2) returned <<FALSE, TRUE>>, the lowest bit
\* in the last position
C16_Witness ==
    /\ call.op = "usize_to_vec"
    /\ tree.height = 2
    /\ call.index = 1
    /\ ret.out = <<FALSE, TRUE>>

\* the prefixes of a path, the empty path and the path itself included
Prefixes(path) == {SubSeq(path, 1, n) : n \in 0..Len(path)}

\* C17: update(i, v) writes only leaf key i and the H+1 cache keys that are
\* prefixes of path(i); every other cache entry, every other leaf and the
\* zero-hash table are unchanged; so every cache key is a prefix of the path
\* of an index present in the leaf map
C17_UpdateFrame ==
    LET H == tree.height
    IN  /\ call.op \in {"update", "remove"} =>
               LET i    == call.index
                   touched == Prefixes(usize_to_vec(i, H))
               IN  /\ Cardinality(touched) = H + 1
                   /\ DOMAIN tree.node_hashes = DOMAIN prev.node_hashes \cup touched
                   /\ \A q \in (DOMAIN prev.node_hashes) \ touched :
                          tree.node_hashes[q] = prev.node_hashes[q]
                   /\ DOMAIN tree.leaves = DOMAIN prev.leaves \cup {i}
                   /\ tree.leaves[i] = call.leaf
                   /\ \A j \in (DOMAIN prev.leaves) \ {i} :
                          tree.leaves[j] = prev.leaves[j]
                   /\ tree.zero_hashes = prev.zero_hashes
                   /\ tree.height = prev.height
        /\ \A q \in DOMAIN tree.node_hashes :
               \E j \in DOMAIN tree.leaves : q \in Prefixes(usize_to_vec(j, H))

\* C17 witness: update(0, 1) on a height-2 tree that already held index 3:
\* the entries under <<TRUE>> stayed and nothing under <<FALSE, TRUE>> exists
C17_Witness ==
    /\ call = [op |-> "update", index |-> 0, leaf |-> 1]
    /\ tree.height = 2
    /\ DOMAIN prev.leaves = {3}
    /\ DOMAIN tree.leaves = {0, 3}
    /\ <<TRUE, TRUE>> \in DOMAIN tree.node_hashes
    /\ tree.node_hashes[<<TRUE>>] = prev.node_hashes[<<TRUE>>]
    /\ tree.node_hashes[<<>>] # prev.node_hashes[<<>>]
    /\ <<FALSE, TRUE>> \notin DOMAIN tree.node_hashes
    /\ <<TRUE, FALSE>> \notin DOMAIN tree.node_hashes

\* C18: zero_hashes has H+1 entries, entry H is hash(emptyLeafValue), entry d
\* is Hash(entry d+1, entry d+1), the fresh tree's root is entry 0, and no
\* update, remove or prove changes the table
C18_ZeroHashTable ==
    LET H  == tree.height
        zh == tree.zero_hashes
    IN  /\ DOMAIN zh = 0..H
        /\ zh[H] = leaf_hash(empty_leaf)
        /\ \A dd \in 0..(H - 1) : zh[dd] = Hash(zh[dd + 1], zh[dd + 1])
        /\ call.op = "new" => get_root(tree) = zh[0]
        /\ call.op \in {"update", "remove", "prove"} => zh = prev.zero_hashes
        /\ zh = New(H).zero_hashes

\* C18 witness: after two updates and a prove on a height-2 tree the table is
\* the constructed one and the root is no longer its entry 0
C18_Witness ==
    /\ call.op = "prove"
    /\ nops = 2
    /\ tree.height = 2
    /\ tree.zero_hashes[1] = Hash(leaf_hash(empty_leaf), leaf_hash(empty_leaf))
    /\ tree.zero_hashes[0] = Hash(tree.zero_hashes[1], tree.zero_hashes[1])
    /\ get_root(tree) # tree.zero_hashes[0]

\* the node at a path of the full binary Merkle tree over the leaf hashes
\* hash(get_leaf(i)), computed bottom-up
RECURSIVE RefNode(_, _)
RefNode(t, path) ==
    IF Len(path) >= t.height
    THEN leaf_hash(get_leaf(t, path_to_index(path)))
    ELSE Hash(RefNode(t, Append(path, FALSE)), RefNode(t, Append(path, TRUE)))

\* C19: in every reachable state get_root() is the root of the reference
\* tree over the current leaf hashes; updates at distinct indices commute
\* with respect to the root, and update(i, v) then remove(i) on a tree where
\* i was empty restores the root while the cache entries remain
C19_HistoryIndependent ==
    LET H == tree.height
    IN  /\ get_root(tree) = RefNode(tree, <<>>)
        /\ call.op \in {"update", "remove"} =>
               \A j \in Indices(H) \ {call.index} : \A w \in LeafValues :
                   get_root(update(tree, j, w))
                       = get_root(update(update(prev, j, w), call.index, call.leaf))
        /\ \A i \in Indices(H) : \A v \in LeafValues :
               leaf_hash(get_leaf(tree, i)) = leaf_hash(empty_leaf) =>
                   LET t2 == remove(update(tree, i, v), i)
                   IN  /\ get_root(t2) = get_root(tree)
                       /\ Prefixes(usize_to_vec(i, H)) \subseteq DOMAIN t2.node_hashes
        /\ (call.op = "remove" /\ \A i \in DOMAIN tree.leaves : tree.leaves[i] = empty_leaf)
               => get_root(tree) = tree.zero_hashes[0]

\* C19 witness: on a height-2 tree update(3, 1) then remove(3) gave back the
\* empty tree's root with all three cache entries of the path still present
C19_Witness ==
    /\ call = [op |-> "remove", index |-> 3, leaf |-> empty_leaf]
    /\ nops = 2
    /\ tree.height = 2
    /\ prev.leaves = [i \in {3} |-> 1]
    /\ get_root(prev) # prev.zero_hashes[0]
    /\ get_root(tree) = tree.zero_hashes[0]
    /\ get_root(tree) = RefNode(tree, <<>>)
    /\ DOMAIN tree.node_hashes = {<<>>, <<TRUE>>, <<TRUE, TRUE>>}

\* i XOR 1: the index of the other leaf under the same parent
Xor1(i) == IF i % 2 = 0 THEN i + 1 ELSE i - 1

\* C20: for H >= 1, in every reachable state and for every index i, the
\* leaf-adjacent entry of prove(i) is hash(get_leaf(i XOR 1)); after
\* update(0, 1) on the empty height-2 tree prove(1)'s is the updated leaf's
C20_LeafAdjacentIsNeighbour ==
    /\ tree.height >= 1 =>
           \A i \in Indices(tree.height) :
               prove(tree, i)[1] = leaf_hash(get_leaf(tree, Xor1(i)))
    /\ (tree.height = 2 /\ nops = 1 /\ call = [op |-> "update", index |-> 0, leaf |-> 1])
           => prove(tree, 1)[1] = leaf_hash(1)

\* C20 witness: on a height-2 tree holding 1 at index 2 and nothing at index
\* 3, prove(3) starts with the hash of leaf 2 and prove(2) with the empty one
C20_Witness ==
    /\ tree.height = 2
    /\ nops >= 1
    /\ 2 \in DOMAIN tree.leaves
    /\ tree.leaves[2] = 1
    /\ 3 \notin DOMAIN tree.leaves
    /\ prove(tree, 3)[1] = leaf_hash(1)
    /\ prove(tree, 2)[1] = leaf_hash(empty_leaf)

====
